---------------------------- MODULE Spec2Model ----------------------------
(***************************************************************************)
(* Model of bunview's host-side Window controller (src/lib/index.js):      *)
(* the constructor and its configuration merge, the outbound commands      *)
(* written to the child process's stdin, the registry of bound callbacks,  *)
(* the stdout read loop with its JSON decoding and dispatch, and the       *)
(* stderr read loop.                                                       *)
(*                                                                         *)
(* Text is a sequence of atoms.  The JSON punctuation, the quote, the      *)
(* backslash and the newline are atoms of their own; a run of ordinary     *)
(* letters or digits (a key, a type name, a numeral) is abbreviated to one *)
(* atom.  A chunk boundary can fall between any two atoms.                  *)
(***************************************************************************)
EXTENDS Integers, Sequences, FiniteSets, TLC

(***************************************************************************)
(* Bounds of the model.                                                    *)
(***************************************************************************)
\* Host calls, lines the child writes, and both together, in one run; the
\* length of the strings given to write in SpecCodec.
MaxCalls == 2
MaxLines == 2
MaxSteps == 3
MaxStrLen == 3

(***************************************************************************)
(* Atoms of text.                                                          *)
(***************************************************************************)
Quote == "\""
Backslash == "\\"
NL == "\n"
LBrace == "{"
RBrace == "}"
LBrack == "["
RBrack == "]"
Colon == ":"
Comma == ","

(***************************************************************************)
(* JavaScript values.  Every value is a record of one shape, so that any   *)
(* two values can be compared: t is the type tag, s the text of a string   *)
(* or the numeral of a number, keys/kids the members of an object (kids    *)
(* alone: the elements of an array).                                       *)
(***************************************************************************)
Node(t, s, keys, kids) == [t |-> t, s |-> s, keys |-> keys, kids |-> kids]
JString(s) == Node("string", s, <<>>, <<>>)
JNumber(n) == Node("number", <<ToString(n)>>, <<>>, <<>>)
JNull == Node("null", <<>>, <<>>, <<>>)
JTrue == Node("true", <<>>, <<>>, <<>>)
JFalse == Node("false", <<>>, <<>>, <<>>)
JUndefined == Node("undefined", <<>>, <<>>, <<>>)
JArray(kids) == Node("array", <<>>, <<>>, kids)
JObject(keys, kids) == Node("object", <<>>, keys, kids)

Numerals == {ToString(n) : n \in 0..9}
NumeralValue(a) == CHOOSE n \in 0..9 : ToString(n) = a

\* obj.key : the last member of that name, undefined when there is none
\* or when obj is not an object.
Get(obj, key) ==
    LET hits == {i \in 1..Len(obj.keys) : obj.keys[i] = key}
    IN  IF obj.t # "object" \/ hits = {} THEN JUndefined
        ELSE obj.kids[CHOOSE i \in hits : \A j \in hits : j <= i]

\* ToBoolean(v), as in `if(evt.data)`.
Truthy(v) ==
    CASE v.t = "string" -> v.s # <<>>
      [] v.t = "number" -> v.s # <<"0">>
      [] v.t \in {"null", "undefined", "false"} -> FALSE
      [] OTHER -> TRUE

(***************************************************************************)
(* JSON.stringify                                                          *)
(***************************************************************************)
\* Mutant: the backslash is written as it is.
EscapeAtomKeepsBackslash(a) ==
    CASE a = Quote -> <<Backslash, Quote>>
      [] a = NL -> <<Backslash, "n">>
      [] OTHER -> <<a>>

EscapeAtom(a) ==
    CASE a = Quote -> <<Backslash, Quote>>
      [] a = Backslash -> <<Backslash, Backslash>>
      [] a = NL -> <<Backslash, "n">>
      [] OTHER -> <<a>>

RECURSIVE Escape(_)
Escape(s) == IF s = <<>> THEN <<>> ELSE EscapeAtom(Head(s)) \o Escape(Tail(s))

Quoted(s) == <<Quote>> \o Escape(s) \o <<Quote>>

RECURSIVE JSONstringify(_)
RECURSIVE StringifyElems(_)
RECURSIVE StringifyMembers(_, _)
JSONstringify(v) ==
    CASE v.t = "string" -> Quoted(v.s)
      [] v.t = "number" -> v.s
      [] v.t = "array" -> <<LBrack>> \o StringifyElems(v.kids) \o <<RBrack>>
      [] v.t = "object" -> <<LBrace>> \o StringifyMembers(v.keys, v.kids) \o <<RBrace>>
      [] OTHER -> <<v.t>>
StringifyElems(kids) ==
    IF kids = <<>> THEN <<>>
    ELSE JSONstringify(Head(kids))
         \o (IF Len(kids) > 1 THEN <<Comma>> ELSE <<>>)
         \o StringifyElems(Tail(kids))
StringifyMembers(keys, kids) ==
    IF keys = <<>> THEN <<>>
    ELSE Quoted(Head(keys)) \o <<Colon>> \o JSONstringify(Head(kids))
         \o (IF Len(keys) > 1 THEN <<Comma>> ELSE <<>>)
         \o StringifyMembers(Tail(keys), Tail(kids))

(***************************************************************************)
(* JSON.parse: a recursive-descent parser.  A result is [ok, v, i]: whether *)
(* a value was read, the value, and the position after it.  White space    *)
(* (the newline) is skipped around the top-level value.                    *)
(***************************************************************************)
Fail == [ok |-> FALSE, v |-> JUndefined, i |-> 0]
Ok(v, i) == [ok |-> TRUE, v |-> v, i |-> i]

RECURSIVE SkipWs(_, _)
SkipWs(s, i) == IF i <= Len(s) /\ s[i] = NL THEN SkipWs(s, i + 1) ELSE i

\* The text of a string literal whose opening quote is before position i.
RECURSIVE ParseChars(_, _, _)
ParseChars(s, i, acc) ==
    IF i > Len(s) THEN Fail
    ELSE IF s[i] = Quote THEN Ok(JString(acc), i + 1)
    ELSE IF s[i] = NL THEN Fail
    ELSE IF s[i] = Backslash THEN
        IF i + 1 > Len(s) THEN Fail
        ELSE IF s[i + 1] = Quote THEN ParseChars(s, i + 2, Append(acc, Quote))
        ELSE IF s[i + 1] = Backslash THEN ParseChars(s, i + 2, Append(acc, Backslash))
        ELSE IF s[i + 1] = "n" THEN ParseChars(s, i + 2, Append(acc, NL))
        ELSE Fail
    ELSE ParseChars(s, i + 1, Append(acc, s[i]))

RECURSIVE ParseValue(_, _)
RECURSIVE ParseElems(_, _, _)
RECURSIVE ParseMembers(_, _, _, _)
ParseValue(s, i) ==
    IF i > Len(s) THEN Fail
    ELSE IF s[i] = Quote THEN ParseChars(s, i + 1, <<>>)
    ELSE IF s[i] \in Numerals THEN Ok(JNumber(NumeralValue(s[i])), i + 1)
    ELSE IF s[i] = "null" THEN Ok(JNull, i + 1)
    ELSE IF s[i] = "true" THEN Ok(JTrue, i + 1)
    ELSE IF s[i] = "false" THEN Ok(JFalse, i + 1)
    ELSE IF s[i] = LBrack THEN
        IF i + 1 <= Len(s) /\ s[i + 1] = RBrack THEN Ok(JArray(<<>>), i + 2)
        ELSE ParseElems(s, i + 1, <<>>)
    ELSE IF s[i] = LBrace THEN
        IF i + 1 <= Len(s) /\ s[i + 1] = RBrace THEN Ok(JObject(<<>>, <<>>), i + 2)
        ELSE ParseMembers(s, i + 1, <<>>, <<>>)
    ELSE Fail
\* Elements of an array from position i up to its closing bracket; r is the
\* element read at i.
AfterElem(s, kids, r) ==
    IF ~r.ok \/ r.i > Len(s) THEN Fail
    ELSE IF s[r.i] = RBrack THEN Ok(JArray(Append(kids, r.v)), r.i + 1)
    ELSE IF s[r.i] = Comma THEN ParseElems(s, r.i + 1, Append(kids, r.v))
    ELSE Fail
ParseElems(s, i, kids) == AfterElem(s, kids, ParseValue(s, i))
\* Members of an object from position i up to its closing brace; k is the
\* key read at i and r the value read after its colon.
AfterMember(s, keys, kids, k, r) ==
    IF ~r.ok \/ r.i > Len(s) THEN Fail
    ELSE IF s[r.i] = RBrace
         THEN Ok(JObject(Append(keys, k.v.s), Append(kids, r.v)), r.i + 1)
    ELSE IF s[r.i] = Comma
         THEN ParseMembers(s, r.i + 1, Append(keys, k.v.s), Append(kids, r.v))
    ELSE Fail
AfterKey(s, keys, kids, k) ==
    IF ~k.ok \/ k.i > Len(s) \/ s[k.i] # Colon THEN Fail
    ELSE AfterMember(s, keys, kids, k, ParseValue(s, k.i + 1))
ParseMembers(s, i, keys, kids) ==
    IF i > Len(s) \/ s[i] # Quote THEN Fail
    ELSE AfterKey(s, keys, kids, ParseChars(s, i + 1, <<>>))

\* JSON.parse(text): ok is FALSE where JSON.parse throws a SyntaxError.
Whole(text, r) == IF r.ok /\ SkipWs(text, r.i) = Len(text) + 1 THEN r ELSE Fail
JSONparse(text) == Whole(text, ParseValue(text, SkipWs(text, 1)))

(***************************************************************************)
(* Program constants.                                                      *)
(***************************************************************************)
SizeHintNONE == 0
DefaultHeight == 320
DefaultWidth == 480
EXE_PATH == <<"__dirname", "/../zig-out/bin/bunview">>
\* Toggle debug logging
DEBUG == TRUE

\* The class field `config` as its initializer leaves it.
DefaultConfig ==
    [height |-> DefaultHeight, width |-> DefaultWidth, title |-> <<>>,
     url |-> <<"data:text/html,<html>Bunview</html>">>]

ConfigFields == {"height", "width", "title", "url"}

\* {...a, ...b}: the fields of both, b's value where both have the field.
ObjectSpread(a, b) ==
    [k \in DOMAIN a \cup DOMAIN b |-> IF k \in DOMAIN b THEN b[k] ELSE a[k]]

\* this.config = {...config, ...this.config}
MergeConfig(config, thisConfig) == ObjectSpread(config, thisConfig)

createConfigArgs(config) ==
    << <<"--height=", ToString(config.height)>>,
       <<"--width=", ToString(config.width)>>,
       <<"--title=", Quote>> \o config.title \o <<Quote>>,
       <<"--url=", Quote>> \o config.url \o <<Quote>> >>

SpawnCmd(config) == <<EXE_PATH>> \o createConfigArgs(config)

(***************************************************************************)
(* State.                                                                  *)
(***************************************************************************)
VARIABLES
    userConfig,  \* the constructor's argument
    config,      \* this.config
    argv,        \* the cmd given to spawn; <<>> before display() has run
    process,     \* this.process: "null", or the child "running" / "killed"
    callbacks,   \* this.#callbacks, a function from indices to callables
    bindIndex,   \* this.#bindIndex
    stdin,       \* the lines the child's stdin has accepted, in order
    stdout,      \* the lines the child has written to its stdout, in order
    stdoutPos,   \* how many atoms of stdout the read loop has consumed
    stdoutLoop,  \* the stdout read loop: "none" (never started), "running",
                 \* or the error its promise was rejected with
    dispatched,  \* the envelopes ioHandlers.stdout has decoded, in order
    calls,       \* host calls made so far
    bindsWritten, \* history: the [id, fn] of every bind command stdin accepted
    destroyed,   \* history: a call of destroy() has killed the child and returned
    lastOp,      \* the operation of the last step and its arguments
    lastMsg,     \* the envelope the last step decoded (undefined: none)
    effects      \* what the last step did, in order: kill, emit, call, throw

vars == <<userConfig, config, argv, process, callbacks, bindIndex, stdin, stdout,
          stdoutPos, stdoutLoop, dispatched, calls, bindsWritten, destroyed, lastOp,
          lastMsg, effects>>

Op(op, str, nums, fn) == [op |-> op, str |-> str, nums |-> nums, fn |-> fn]
NoOp == Op("none", <<>>, <<>>, "")

Effect(op, name, fn, args) == [op |-> op, name |-> name, fn |-> fn, args |-> args]
Kill == Effect("kill", JUndefined, "", <<>>)
Emit(name, args) == Effect("emit", name, "", args)
Call(fn, args) == Effect("call", JUndefined, fn, args)
Throw(error) == Effect("throw", JString(<<error>>), "", <<>>)
\* console.log(text)
Log(text) == Effect("log", JString(text), "", <<>>)
\* spawn({cmd, stdio}); the cmd is in argv
Spawn == Effect("spawn", JUndefined, "", <<>>)
\* The promise an async function returned was rejected and nothing awaits it.
Reject(error) == Effect("reject", JString(<<error>>), "", <<>>)
Threw(effs) == \E i \in 1..Len(effs) : effs[i].op = "throw"
\* The name of the error a handler's effects end with.
Thrown(effs) == effs[Len(effs)].name.s[1]

(***************************************************************************)
(* Inputs of the host's calls.                                             *)
(***************************************************************************)
Names == {<<"add">>}
Callables == {"f", "g"}
Titles == {<<"T">>}
Urls == {<<"https://bun.sh">>}
Codes == {<<"alert(", Quote, "hi", Quote, ")">>}
SizeArgs == {<<800, 600>>, <<800, 600, 3>>}

(***************************************************************************)
(* write(type, data)                                                       *)
(***************************************************************************)
\* JSON.stringify({type: type, data: data}) + "\n"
WriteLine(type, data) ==
    JSONstringify(JObject(<< <<"type">>, <<"data">> >>, <<JString(type), JString(data)>>))
    \o <<NL>>

\* How a call of write can end: this.process.stdin throws a TypeError while
\* this.process is null; the stdin of a killed child may accept the write or
\* throw; the stdin of a running child accepts it.
WriteOutcomes ==
    CASE process = "null" -> {"TypeError"}
      [] process = "killed" -> {"ok", "Error"}
      [] OTHER -> {"ok"}

\* stdin after write(type, data) ended with that outcome.
Written(type, data, outcome) ==
    IF outcome = "ok" THEN Append(stdin, WriteLine(type, data)) ELSE stdin

WriteEffects(outcome) == IF outcome = "ok" THEN <<>> ELSE <<Throw(outcome)>>

\* A host call that only writes one command.
Command(op, type, data) ==
    /\ calls < MaxCalls
    /\ calls + Len(stdout) < MaxSteps
    /\ calls' = calls + 1
    /\ \E outcome \in WriteOutcomes :
          /\ stdin' = Written(type, data, outcome)
          /\ effects' = WriteEffects(outcome)
    /\ lastOp' = op
    /\ lastMsg' = JUndefined
    /\ UNCHANGED <<userConfig, config, argv, process, callbacks, bindIndex, stdout,
                   stdoutPos, stdoutLoop, dispatched, bindsWritten, destroyed>>

(***************************************************************************)
(* bind, setTitle, setSize, navigate, eval, init, destroy                  *)
(***************************************************************************)
\* this.#callbacks[index] = callback
Store(cbs, index, callback) ==
    [i \in DOMAIN cbs \cup {index} |-> IF i = index THEN callback ELSE cbs[i]]

\* Mutant: the index is bumped before the command is written.
BindDataAfterBump(index, name) == <<ToString(index + 1), Colon>> \o name

\* this.#bindIndex + ":" + name
BindData(index, name) == <<ToString(index), Colon>> \o name

\* Mutant: the index is never bumped.
BumpIndexNever(index, outcome) == index

\* this.#bindIndex after bind: the bump is not reached when write throws.
BumpIndex(index, outcome) == IF outcome = "ok" THEN index + 1 ELSE index

bind(name, callback) ==
    /\ calls < MaxCalls
    /\ calls + Len(stdout) < MaxSteps
    /\ calls' = calls + 1
    /\ callbacks' = Store(callbacks, bindIndex, callback)
    /\ \E outcome \in WriteOutcomes :
          /\ stdin' = Written(<<"bind">>, BindData(bindIndex, name), outcome)
          /\ effects' = WriteEffects(outcome)
          /\ bindIndex' = BumpIndex(bindIndex, outcome)
          /\ bindsWritten' =
                IF outcome = "ok"
                THEN bindsWritten \cup
                     {[id |-> NumeralValue(Head(BindData(bindIndex, name))), fn |-> callback]}
                ELSE bindsWritten
    /\ lastOp' = Op("bind", name, <<>>, callback)
    /\ lastMsg' = JUndefined
    /\ UNCHANGED <<userConfig, config, argv, process, stdout, stdoutPos, stdoutLoop,
                   dispatched, destroyed>>

setTitle(title) == Command(Op("setTitle", title, <<>>, ""), <<"setTitle">>, title)

\* Mutant: height before width.
SizeDataHeightFirst(args) ==
    <<ToString(args[2]), Colon, ToString(args[1]), Colon,
      ToString(IF Len(args) >= 3 THEN args[3] ELSE SizeHintNONE)>>

\* width + ':' + height + ':' + hint, hint = SizeHint.NONE when omitted
SizeData(args) ==
    <<ToString(args[1]), Colon, ToString(args[2]), Colon,
      ToString(IF Len(args) >= 3 THEN args[3] ELSE SizeHintNONE)>>

setSize(args) == Command(Op("setSize", <<>>, args, ""), <<"setSize">>, SizeData(args))

navigate(url) == Command(Op("navigate", url, <<>>, ""), <<"navigate">>, url)

eval(code) == Command(Op("eval", code, <<>>, ""), <<"eval">>, code)

init(code) == Command(Op("init", code, <<>>, ""), <<"init">>, code)

\* Mutant: the event is emitted before the kill.
DestroyEmitsFirst == <<Emit(JString(<<"close">>), <<>>), Kill>>

\* this.process.kill(); this.emit('close')
DestroyEffects == <<Kill, Emit(JString(<<"close">>), <<>>)>>

destroy ==
    /\ calls < MaxCalls
    /\ calls + Len(stdout) < MaxSteps
    /\ calls' = calls + 1
    /\ IF process = "null"
       THEN /\ effects' = <<Throw("TypeError")>>
            /\ process' = process
            /\ destroyed' = destroyed
       ELSE /\ effects' = DestroyEffects
            /\ process' = "killed"
            /\ destroyed' = TRUE
    /\ lastOp' = Op("destroy", <<>>, <<>>, "")
    /\ lastMsg' = JUndefined
    /\ UNCHANGED <<userConfig, config, argv, callbacks, bindIndex, stdin, stdout,
                   stdoutPos, stdoutLoop, dispatched, bindsWritten>>

(***************************************************************************)
(* What the child process writes to its stdout.                            *)
(***************************************************************************)
Envelope(type, data) == JObject(<< <<"type">>, <<"data">> >>, <<JString(type), data>>)

\* The record {event, data}; {event} when there is no payload.
EventRecord(name, payload) ==
    IF payload = JUndefined
    THEN JObject(<< <<"event">> >>, <<JString(name)>>)
    ELSE JObject(<< <<"event">>, <<"data">> >>, <<JString(name), payload>>)

\* An `event` envelope: its data is the JSON text of {event, data?}.
NativeEvent(name, payload) ==
    Envelope(<<"event">>, JString(JSONstringify(EventRecord(name, payload))))

\* An `internalEvent` envelope: its data is the record itself.
InternalEvent(name, payload) == Envelope(<<"internalEvent">>, EventRecord(name, payload))

BindCallback(id, args) ==
    JObject(<< <<"type">>, <<"id">>, <<"data">> >>,
            <<JString(<<"bindCallback">>), JNumber(id), JArray(args)>>)

CallbackIds == 0..1

InboundEnvelopes ==
    {NativeEvent(<<"close">>, JUndefined),
     NativeEvent(<<"hello">>, JString(<<"x">>)),
     InternalEvent(<<"ready">>, JNull),
     Envelope(<<"log">>, JString(<<"x">>))}
    \cup {BindCallback(id, <<JNumber(2), JNumber(3)>>) : id \in CallbackIds}

Line(envelope) == JSONstringify(envelope) \o <<NL>>
WellFormedLines == {Line(e) : e \in InboundEnvelopes}
MalformedLines == {<<LBrace, "oops", NL>>}
NativeLines == WellFormedLines \cup MalformedLines

RECURSIVE Concat(_)
Concat(lines) == IF lines = <<>> THEN <<>> ELSE Head(lines) \o Concat(Tail(lines))

\* The atoms written to stdout that the read loop has not consumed yet.
Pending == LET all == Concat(stdout) IN SubSeq(all, stdoutPos + 1, Len(all))

NativeWrite(line) ==
    /\ process = "running"
    /\ stdoutLoop = "running"
    /\ Len(stdout) < MaxLines
    /\ calls + Len(stdout) < MaxSteps
    /\ stdout' = Append(stdout, line)
    /\ lastOp' = Op("nativeWrite", <<>>, <<>>, "")
    /\ lastMsg' = JUndefined
    /\ effects' = <<>>
    /\ UNCHANGED <<userConfig, config, argv, process, callbacks, bindIndex, stdin,
                   stdoutPos, stdoutLoop, dispatched, calls, bindsWritten, destroyed>>

(***************************************************************************)
(* ioHandlers.stdout                                                       *)
(***************************************************************************)
IsString(v, s) == v.t = "string" /\ v.s = s

\* String(v), the text JSON.parse is given when its argument is no string.
RECURSIVE ToStringJS(_)
RECURSIVE JoinJS(_)
ToStringJS(v) ==
    CASE v.t \in {"string", "number"} -> v.s
      [] v.t = "array" -> JoinJS(v.kids)
      [] v.t = "object" -> <<"[object Object]">>
      [] OTHER -> <<v.t>>
JoinJS(kids) ==
    IF kids = <<>> THEN <<>>
    ELSE (IF Head(kids).t \in {"null", "undefined"} THEN <<>> ELSE ToStringJS(Head(kids)))
         \o (IF Len(kids) > 1 THEN <<Comma>> ELSE <<>>)
         \o JoinJS(Tail(kids))

\* Reading a property of v throws a TypeError.
NoProperties(v) == v.t \in {"null", "undefined"}

\* this.#callbacks[id]: the index an id selects, -1 when it selects none.
CallbackIndex(cbs, id) ==
    IF id.t \in {"number", "string"} /\ Len(id.s) = 1 /\ id.s[1] \in Numerals
       /\ NumeralValue(id.s[1]) \in DOMAIN cbs
    THEN NumeralValue(id.s[1])
    ELSE -1

\* ...args: the arguments an iterable spreads to.
SpreadArgs(args) ==
    IF args.t = "array" THEN args.kids ELSE [i \in 1..Len(args.s) |-> JString(<<args.s[i]>>)]

\* Mutant: an id with no callback is skipped.
InvokeIfBound(cbs, id, args) ==
    IF CallbackIndex(cbs, id) = -1 \/ args.t \notin {"array", "string"}
    THEN <<>>
    ELSE <<Call(cbs[CallbackIndex(cbs, id)], SpreadArgs(args))>>

\* this.#callbacks[id](...args)
InvokeCallback(cbs, id, args) ==
    IF CallbackIndex(cbs, id) = -1 \/ args.t \notin {"array", "string"}
    THEN <<Throw("TypeError")>>
    ELSE <<Call(cbs[CallbackIndex(cbs, id)], SpreadArgs(args))>>

\* Mutant: the event is emitted before the kill.
CloseEmitsFirst(evt) == <<Emit(Get(evt, <<"event">>), <<>>), Kill>>

\* The close branch: this.process.kill(); this.emit(evt.event)
CloseEffects(evt) == <<Kill, Emit(Get(evt, <<"event">>), <<>>)>>

\* The branch of any other event.
EventEffects(evt) ==
    IF Truthy(Get(evt, <<"data">>))
    THEN <<Emit(Get(evt, <<"event">>), <<Get(evt, <<"data">>)>>)>>
    ELSE <<Emit(Get(evt, <<"event">>), <<>>)>>

\* Mutant: the internalEvent branch tests its data as the event branch does.
InternalEventEffectsIfData(evt) == EventEffects(evt)

\* The internalEvent branch: this.emit(evt.event, evt.data)
InternalEventEffects(evt) == <<Emit(Get(evt, <<"event">>), <<Get(evt, <<"data">>)>>)>>

\* The effects of the handler's switch on a decoded msg.
Dispatch(cbs, msg) ==
    IF NoProperties(msg) THEN <<Throw("TypeError")>>
    ELSE IF IsString(Get(msg, <<"type">>), <<"event">>) THEN
        LET evt == JSONparse(ToStringJS(Get(msg, <<"data">>)))
        IN  IF ~evt.ok THEN <<Throw("SyntaxError")>>
            ELSE IF NoProperties(evt.v) THEN <<Throw("TypeError")>>
            ELSE IF IsString(Get(evt.v, <<"event">>), <<"close">>) THEN CloseEffects(evt.v)
            ELSE EventEffects(evt.v)
    ELSE IF IsString(Get(msg, <<"type">>), <<"internalEvent">>) THEN
        LET evt == Get(msg, <<"data">>)
        IN  IF NoProperties(evt) THEN <<Throw("TypeError")>>
            ELSE InternalEventEffects(evt)
    ELSE IF IsString(Get(msg, <<"type">>), <<"bindCallback">>) THEN
        InvokeCallback(cbs, Get(msg, <<"id">>), Get(msg, <<"data">>))
    ELSE <<>>

\* Mutant: of a chunk of several lines only the last is decoded.
RECURSIVE LastLineStart(_, _)
LastLineStart(text, i) ==
    IF i <= 1 THEN 1
    ELSE IF text[i - 1] = NL THEN i
    ELSE LastLineStart(text, i - 1)
DecodeLastLine(text) ==
    JSONparse(SubSeq(text, LastLineStart(text, Len(text)), Len(text)))

\* What the handler decodes from the text it is given: msg = JSON.parse(msg).
Decode(text) == JSONparse(text)

\* ioHandlers.stdout(text): the envelope decoded (undefined when JSON.parse
\* throws) and the effects.
StdoutHandler(cbs, text) ==
    LET msg == Decode(text)
    IN  IF ~msg.ok THEN [msg |-> JUndefined, decoded |-> FALSE, effects |-> <<Throw("SyntaxError")>>]
        ELSE [msg |-> msg.v, decoded |-> TRUE, effects |-> Dispatch(cbs, msg.v)]

Killed(effs) == \E i \in 1..Len(effs) : effs[i].op = "kill"

\* One iteration of the stdout read loop: the next chunk is the first n
\* pending atoms.  When the handler throws, the loop ends, rejected, and the
\* abandoned `for await` cancels the stream: what is pending is discarded.
StdoutChunk ==
    /\ stdoutLoop = "running"
    /\ \E pending \in {Pending} :
       \E n \in 1..Len(pending) :
       \E h \in {StdoutHandler(callbacks, SubSeq(pending, 1, n))} :
          /\ effects' = h.effects
          /\ lastMsg' = h.msg
          /\ dispatched' = IF h.decoded THEN Append(dispatched, h.msg) ELSE dispatched
          /\ process' = IF Killed(h.effects) THEN "killed" ELSE process
          /\ stdoutLoop' = IF Threw(h.effects) THEN Thrown(h.effects) ELSE "running"
          /\ stdoutPos' = IF Threw(h.effects) THEN stdoutPos + Len(pending)
                           ELSE stdoutPos + n
    /\ lastOp' = Op("stdoutChunk", <<>>, <<>>, "")
    /\ UNCHANGED <<userConfig, config, argv, callbacks, bindIndex, stdin, stdout, calls,
                   bindsWritten, destroyed>>

(***************************************************************************)
(* ioHandlers.stderr and the stderr read loop                              *)
(***************************************************************************)
\* Mutant: the chunk is handed to the stdout handler.
StderrDispatches(text) == StdoutHandler(callbacks, text).effects

\* if(DEBUG) console.log("(debug) " + msg)
StderrHandler(text) == IF DEBUG THEN <<Log(<<"(debug) ">> \o text)>> ELSE <<>>

\* One iteration of the stderr read loop, which display() starts with the
\* stdout loop and which nothing ends but the end of the stream: the chunk
\* is whatever the child wrote to its stderr.
StderrChunk(text) ==
    /\ stdoutLoop # "none"
    /\ effects' = StderrHandler(text)
    /\ lastOp' = Op("stderrChunk", text, <<>>, "")
    /\ lastMsg' = JUndefined
    /\ UNCHANGED <<userConfig, config, argv, process, callbacks, bindIndex, stdin, stdout,
                   stdoutPos, stdoutLoop, dispatched, calls, bindsWritten, destroyed>>

(***************************************************************************)
(* The constructor.                                                        *)
(***************************************************************************)
\* What display() leaves on a Window of configuration cfg: its spawn either
\* returns the child, which becomes this.process, and the read loops start,
\* or throws inside the async function, which leaves a rejected promise and
\* the handle and the loops as they were.
Display(cfg, handle, loop, spawned) ==
    [argv |-> SpawnCmd(cfg),
     process |-> IF spawned THEN "running" ELSE handle,
     stdoutLoop |-> IF spawned THEN "running" ELSE loop,
     effects |-> IF spawned THEN <<Spawn>> ELSE <<Spawn, Reject("Error")>>]

\* What the constructor leaves: the merge, then display() on a Window whose
\* handle is null; the promise display() returns is dropped.
Constructor(uc, thisConfig, spawned) ==
    [config |-> MergeConfig(uc, thisConfig)]
    @@ Display(MergeConfig(uc, thisConfig), "null", "none", spawned)

\* A Window on which nothing has been called and nothing has arrived.
Idle ==
    /\ callbacks = <<>>
    /\ bindIndex = 0
    /\ stdin = <<>>
    /\ stdout = <<>>
    /\ stdoutPos = 0
    /\ dispatched = <<>>
    /\ calls = 0
    /\ bindsWritten = {}
    /\ destroyed = FALSE
    /\ lastMsg = JUndefined
    /\ effects = <<>>

NoConfig == [k \in {} |-> 0]

(***************************************************************************)
(* Spec: a Window constructed without a configuration, the host's calls,   *)
(* the child's writes to stdout and the stdout read loop.                  *)
(***************************************************************************)
Init ==
    /\ userConfig = NoConfig
    /\ \E spawned \in BOOLEAN :
       \E w \in {Constructor(NoConfig, DefaultConfig, spawned)} :
          /\ config = w.config
          /\ argv = w.argv
          /\ process = w.process
          /\ stdoutLoop = w.stdoutLoop
    /\ lastOp = NoOp
    /\ Idle

Next ==
    \/ \E name \in Names, callback \in Callables : bind(name, callback)
    \/ \E title \in Titles : setTitle(title)
    \/ \E args \in SizeArgs : setSize(args)
    \/ \E url \in Urls : navigate(url)
    \/ \E code \in Codes : eval(code)
    \/ \E code \in Codes : init(code)
    \/ destroy
    \/ \E line \in NativeLines : NativeWrite(line)
    \/ StdoutChunk

Spec == Init /\ [][Next]_vars

(***************************************************************************)
(* SpecConstruct: the constructor applied to every configuration, and on   *)
(* the Window it leaves, before anything has arrived from the child, the   *)
(* host's calls of setTitle and of display().                              *)
(***************************************************************************)
Heights == {600, 240}
Widths == {800, 640}
UserTitles == {<<"T">>, <<"a", Quote, "b">>}
UserUrls == {<<"https://bun.sh">>, <<"about:blank">>}

UserConfigs ==
    {[k \in fields |-> full[k]] :
        full \in [height : Heights, width : Widths, title : UserTitles, url : UserUrls],
        fields \in SUBSET ConfigFields}

\* The fields as their initializers leave them, before the constructor's body.
ConstructInit ==
    /\ userConfig \in UserConfigs
    /\ config = DefaultConfig
    /\ argv = <<>>
    /\ process = "null"
    /\ stdoutLoop = "none"
    /\ lastOp = NoOp
    /\ Idle

Construct ==
    /\ argv = <<>>
    /\ \E spawned \in BOOLEAN :
       \E w \in {Constructor(userConfig, config, spawned)} :
          /\ config' = w.config
          /\ argv' = w.argv
          /\ process' = w.process
          /\ stdoutLoop' = w.stdoutLoop
          /\ effects' = w.effects
    /\ lastOp' = Op("constructor", <<>>, <<>>, "")
    /\ UNCHANGED <<userConfig, callbacks, bindIndex, stdin, stdout, stdoutPos, dispatched,
                   calls, bindsWritten, lastMsg, destroyed>>

\* The host calls display() on the constructed Window: a child spawned now
\* replaces the handle, and the commands written from now on go to it.
display ==
    /\ argv # <<>>
    /\ calls < MaxCalls
    /\ calls' = calls + 1
    /\ \E spawned \in BOOLEAN :
       \E d \in {Display(config, process, stdoutLoop, spawned)} :
          /\ argv' = d.argv
          /\ process' = d.process
          /\ stdoutLoop' = d.stdoutLoop
          /\ effects' = d.effects
          /\ stdin' = IF spawned THEN <<>> ELSE stdin
    /\ lastOp' = Op("display", <<>>, <<>>, "")
    /\ lastMsg' = JUndefined
    /\ UNCHANGED <<userConfig, config, callbacks, bindIndex, stdout, stdoutPos, dispatched,
                   bindsWritten, destroyed>>

ConstructNext ==
    \/ Construct
    \/ display
    \/ \E title \in Titles : argv # <<>> /\ setTitle(title)

SpecConstruct == ConstructInit /\ [][ConstructNext]_vars

(***************************************************************************)
(* SpecCodec: write(type, data) for every outbound type and every string,  *)
(* and the decoding of what it wrote by the stdout handler.                *)
(***************************************************************************)
OutboundTypes == {"bind", "setTitle", "setSize", "navigate", "eval", "init"}
CodecAtoms == {"a", "n", Quote, Backslash, NL}
CodecStrings == UNION {[1..len -> CodecAtoms] : len \in 0..MaxStrLen}

\* A running Window about to call write(type, data).
CodecInit ==
    /\ userConfig = NoConfig
    /\ \E w \in {Constructor(NoConfig, DefaultConfig, TRUE)} :
          /\ config = w.config
          /\ argv = w.argv
          /\ process = w.process
          /\ stdoutLoop = w.stdoutLoop
    /\ \E type \in OutboundTypes, data \in CodecStrings :
          lastOp = Op("write", data, <<>>, type)
    /\ Idle

CodecWrite ==
    /\ stdin = <<>>
    /\ Command(lastOp, <<lastOp.fn>>, lastOp.str)

\* The handler is given the line that was written.
CodecRead ==
    /\ Len(stdin) = 1
    /\ stdoutPos = 0
    /\ \E h \in {StdoutHandler(callbacks, stdin[1])} :
          /\ effects' = h.effects
          /\ lastMsg' = h.msg
          /\ dispatched' = IF h.decoded THEN Append(dispatched, h.msg) ELSE dispatched
          /\ stdoutLoop' = IF Threw(h.effects) THEN Thrown(h.effects) ELSE "running"
    /\ stdout' = <<stdin[1]>>
    /\ stdoutPos' = Len(stdin[1])
    /\ UNCHANGED <<userConfig, config, argv, process, callbacks, bindIndex, stdin, calls,
                   bindsWritten, lastOp, destroyed>>

SpecCodec == CodecInit /\ [][CodecWrite \/ CodecRead]_vars

(***************************************************************************)
(* SpecHandler: the two handlers applied to every shape of text, on a      *)
(* Window with none, one or two callbacks bound.  The child's line reaches *)
(* the stdout handler as one chunk.                                        *)
(***************************************************************************)
EventNames == {<<"close">>, <<"ready">>}

\* The data of an event: absent (undefined), or any JSON value.
Payloads ==
    {JUndefined, JNull, JFalse, JTrue, JNumber(0), JNumber(1), JString(<<>>),
     JString(<<"x">>), JArray(<<>>), JObject(<<>>, <<>>)}

ArgLists == {<<>>, <<JNumber(2), JNumber(3)>>}

\* Values that are no envelope of the three inbound types.
OtherValues ==
    {Envelope(<<"log">>, JString(<<"x">>)),
     Envelope(<<"Event">>, JString(JSONstringify(EventRecord(<<"ready">>, JNumber(1))))),
     Envelope(<<"event">>, JString(<<"oops">>)),
     Envelope(<<"internalEvent">>, JNull),
     JObject(<< <<"data">> >>, <<JString(<<"x">>)>>),
     JObject(<< <<"type">> >>, <<JNumber(1)>>),
     JNumber(1), JString(<<"event">>), JArray(<<>>), JNull}

HandlerValues ==
    {NativeEvent(name, payload) : name \in EventNames, payload \in Payloads}
    \cup {InternalEvent(name, payload) : name \in EventNames, payload \in Payloads}
    \cup {BindCallback(id, args) : id \in CallbackIds, args \in ArgLists}
    \cup OtherValues

HandlerLines == {Line(v) : v \in HandlerValues} \cup MalformedLines

StderrTexts ==
    {<<"warning", NL>>, Line(NativeEvent(<<"close">>, JUndefined)),
     Line(InternalEvent(<<"ready">>, JNull)),
     Line(BindCallback(0, <<JNumber(2), JNumber(3)>>))}
    \cup MalformedLines

\* The child writes a line and the read loop's next chunk is that line.
StdoutLine(line) ==
    /\ process = "running"
    /\ stdoutLoop = "running"
    /\ stdout = <<>>
    /\ \E h \in {StdoutHandler(callbacks, line)} :
          /\ effects' = h.effects
          /\ lastMsg' = h.msg
          /\ dispatched' = IF h.decoded THEN Append(dispatched, h.msg) ELSE dispatched
          /\ process' = IF Killed(h.effects) THEN "killed" ELSE process
          /\ stdoutLoop' = IF Threw(h.effects) THEN Thrown(h.effects) ELSE "running"
    /\ stdout' = <<line>>
    /\ stdoutPos' = Len(line)
    /\ lastOp' = Op("stdoutChunk", <<>>, <<>>, "")
    /\ UNCHANGED <<userConfig, config, argv, callbacks, bindIndex, stdin, calls,
                   bindsWritten, destroyed>>

HandlerNext ==
    \/ \E name \in Names, callback \in Callables : bind(name, callback)
    \/ \E line \in HandlerLines : StdoutLine(line)
    \/ \E text \in StderrTexts : StderrChunk(text)

SpecHandler == Init /\ [][HandlerNext]_vars

(***************************************************************************)
(* Claims.                                                                 *)
(***************************************************************************)
Last(seq) == seq[Len(seq)]

\* The configuration the caller's fields laid over the defaults give.
CallerOverDefaults(uc) ==
    [k \in ConfigFields |-> IF k \in DOMAIN uc THEN uc[k] ELSE DefaultConfig[k]]

\* C1: once the constructor has run, every field among height, width, title
\* and url that the caller supplied has the caller's value in the merged
\* configuration and in the argument vector given to spawn, and every other
\* field has its default.
C1_CallerFieldsTakePrecedence ==
    argv # <<>> =>
        /\ \A k \in ConfigFields : config[k] = CallerOverDefaults(userConfig)[k]
        /\ argv = <<EXE_PATH>> \o createConfigArgs(CallerOverDefaults(userConfig))

\* C10: decoding the line write(type, data) produced yields exactly one
\* envelope, and it is {type, data}.
C10_RoundTrip ==
    stdoutPos > 0 =>
        /\ stdoutLoop = "running"
        /\ dispatched = <<Envelope(<<lastOp.fn>>, JString(lastOp.str))>>

\* A string with a quote, a backslash and a newline came back as written.
C10_Witness ==
    /\ stdoutPos > 0
    /\ lastOp.fn = "eval"
    /\ lastOp.str = <<Backslash, "n", NL>>
    /\ Len(dispatched) = 1
    /\ Get(dispatched[1], <<"data">>).s = <<Backslash, "n", NL>>

(***************************************************************************)
(* The stream the child wrote, as envelopes.                                *)
(***************************************************************************)
WellFormedStream == \A i \in 1..Len(stdout) : stdout[i] \in WellFormedLines
EnvelopeOf(line) == CHOOSE e \in InboundEnvelopes : Line(e) = line
AllConsumed == stdoutPos = Len(Concat(stdout))
IsBindCallback(m) == m.t = "object" /\ IsString(Get(m, <<"type">>), <<"bindCallback">>)
CloseEnvelope == NativeEvent(<<"close">>, JUndefined)
EmitClose == Emit(JString(<<"close">>), <<>>)
HostCall == calls' = calls + 1

\* C2: whatever the chunk boundaries, once a well-formed stream has been
\* consumed the envelopes dispatched are the envelopes of its lines, in
\* order (a dispatch that threw aside: it ends the loop under any chunking).
C2_ChunkingInvariance ==
    (WellFormedStream /\ AllConsumed /\ stdoutLoop \in {"running", "SyntaxError"}) =>
        dispatched = [i \in 1..Len(stdout) |-> EnvelopeOf(stdout[i])]

\* C3: a bindCallback envelope whose id was written in the bind command for
\* callback c calls c, once, with the envelope's arguments in order, and
\* calls nothing else.
C3_CallbackCorrelation ==
    \A b \in bindsWritten :
        (IsBindCallback(lastMsg) /\ Get(lastMsg, <<"id">>) = JNumber(b.id)) =>
            effects = <<Call(b.fn, Get(lastMsg, <<"data">>).kids)>>

\* The second of two bound callbacks was called with (2, 3).
C3_Witness ==
    /\ [id |-> 1, fn |-> "g"] \in bindsWritten
    /\ lastMsg = BindCallback(1, <<JNumber(2), JNumber(3)>>)
    /\ effects = <<Call("g", <<JNumber(2), JNumber(3)>>)>>

\* C4: dispatching the native close event kills the process and then emits
\* `close`, once.
C4_CloseKillsThenEmits ==
    lastMsg = CloseEnvelope => (effects = <<Kill, EmitClose>> /\ process = "killed")

\* The close event arrived on stdout and was dispatched.
C4_Witness ==
    /\ lastMsg = CloseEnvelope
    /\ lastOp.op = "stdoutChunk"
    /\ Len(effects) = 2
    /\ effects[1].op = "kill"
    /\ effects[2].op = "emit"

\* C5: destroy() calls kill whatever the state of the child, running or
\* already killed, and emits `close` only after the kill; with no process
\* handle the kill throws and nothing is emitted.
C5_DestroyKillsThenEmits ==
    lastOp.op = "destroy" =>
        /\ \A j \in 1..Len(effects) :
              effects[j].op = "emit" => \E i \in 1..(j - 1) : effects[i].op = "kill"
        /\ process # "null" => (effects = <<Kill, EmitClose>> /\ process = "killed")
        /\ process = "null" => effects = <<Throw("TypeError")>>

\* destroy() on a child the native close event had already killed.
C5_Witness ==
    /\ lastOp.op = "destroy"
    /\ dispatched = <<CloseEnvelope>>
    /\ effects = <<Kill, EmitClose>>

\* C6: no registry entry is ever overwritten or removed, and no bind call is
\* assigned an identifier an earlier bind call was assigned, whether or not
\* a write fails.
C6_RegistryAppendOnly ==
    [][/\ \A i \in DOMAIN callbacks : i \in DOMAIN callbacks' /\ callbacks'[i] = callbacks[i]
       /\ (HostCall /\ lastOp'.op = "bind") => bindIndex \notin DOMAIN callbacks]_vars

\* C7: dispatching a bindCallback whose id is not in the registry throws, the
\* error rejects the read loop's promise, nothing is called and the registry
\* is as it was.
C7_UnknownCallbackFails ==
    [][(/\ IsBindCallback(lastMsg')
        /\ NumeralValue(Get(lastMsg', <<"id">>).s[1]) \notin DOMAIN callbacks)
       => /\ effects' = <<Throw("TypeError")>>
          /\ stdoutLoop' = "TypeError"
          /\ callbacks' = callbacks
          /\ bindIndex' = bindIndex]_vars

\* An unregistered id arrived while another callback was registered.
C7_Witness ==
    /\ lastMsg = BindCallback(1, <<JNumber(2), JNumber(3)>>)
    /\ DOMAIN callbacks = {0}
    /\ effects = <<Throw("TypeError")>>
    /\ stdoutLoop = "TypeError"

\* C8: the envelopes dispatched are, in order and with none skipped, the
\* first envelopes the child wrote, and the effects of a step are those of
\* the newest of them.
C8_DispatchInStreamOrder ==
    /\ Len(dispatched) <= Len(stdout)
    /\ \A i \in 1..Len(dispatched) :
          stdout[i] \in WellFormedLines /\ dispatched[i] = EnvelopeOf(stdout[i])
    /\ lastMsg # JUndefined => (dispatched # <<>> /\ lastMsg = Last(dispatched))

\* Two different envelopes were dispatched, the close event second.
C8_Witness ==
    /\ Len(dispatched) = 2
    /\ dispatched[1] = InternalEvent(<<"ready">>, JNull)
    /\ dispatched[2] = CloseEnvelope
    /\ effects = <<Kill, EmitClose>>

\* The data a call's command carries: the argument verbatim, the three size
\* fields joined by colons with 0 for an omitted hint, or id and name.
C9_Data(op, index) ==
    CASE op.op = "bind" -> <<ToString(index), ":">> \o op.str
      [] op.op = "setSize" ->
            <<ToString(op.nums[1]), ":", ToString(op.nums[2]), ":",
              IF Len(op.nums) = 3 THEN ToString(op.nums[3]) ELSE "0">>
      [] OTHER -> op.str

\* One envelope {type, data} on one line ended by the only newline.
C9_OneEnvelope(line, type, data) ==
    /\ Len(line) >= 1
    /\ line[Len(line)] = NL
    /\ \A i \in 1..(Len(line) - 1) : line[i] # NL
    /\ JSONparse(line).v = Envelope(type, JString(data))

\* C9: every call of bind, setTitle, setSize, navigate, eval or init appends
\* exactly one line to the process input, the envelope of its type and data;
\* the only other way it ends is that the write throws, which a running
\* child never does, and then nothing is written.  No other step writes.
C9_OneCommandPerCall ==
    [][IF HostCall /\ lastOp'.op # "destroy"
       THEN /\ \/ /\ Len(stdin') = Len(stdin) + 1
                  /\ SubSeq(stdin', 1, Len(stdin)) = stdin
                  /\ C9_OneEnvelope(stdin'[Len(stdin')], <<lastOp'.op>>,
                                    C9_Data(lastOp', bindIndex))
                  /\ ~Threw(effects')
               \/ /\ stdin' = stdin
                  /\ Threw(effects')
            /\ process = "running" => ~Threw(effects')
       ELSE stdin' = stdin]_vars

\* A setSize without a hint, as the second of two calls.
C9_Witness ==
    /\ lastOp = Op("setSize", <<>>, <<800, 600>>, "")
    /\ Len(stdin) = 2
    /\ Get(JSONparse(stdin[2]).v, <<"data">>) = JString(<<"800", ":", "600", ":", "0">>)
    /\ Get(JSONparse(stdin[1]).v, <<"type">>) = JString(<<"bind">>)

(***************************************************************************)
(* The handlers, one envelope at a time (SpecHandler).                     *)
(***************************************************************************)
IsEnvelope(m, type) == m.t = "object" /\ IsString(Get(m, <<"type">>), type)
HasKey(obj, key) == \E i \in 1..Len(obj.keys) : obj.keys[i] = key
Emits(effs) == \E i \in 1..Len(effs) : effs[i].op = "emit"
Calls(effs) == \E i \in 1..Len(effs) : effs[i].op = "call"
Logs(effs) == \E i \in 1..Len(effs) : effs[i].op = "log"

\* The {event, data} record of the internalEvent envelope just dispatched.
InternalRecord == Get(lastMsg, <<"data">>)
IsInternalEvent == IsEnvelope(lastMsg, <<"internalEvent">>) /\ InternalRecord.t = "object"

\* C11 as stated: dispatching an internalEvent envelope emits the event its
\* record names with the record's data, undecoded, as the payload, and with
\* no payload at all when that data is null.
C11_InternalEventNullIsNoPayload ==
    IsInternalEvent =>
        effects = <<Emit(Get(InternalRecord, <<"event">>),
                         IF Get(InternalRecord, <<"data">>) = JNull THEN <<>>
                         ELSE <<Get(InternalRecord, <<"data">>)>>)>>

\* C11 as amended: dispatching an internalEvent envelope emits the event its
\* record names with the record's data, undecoded, as the one payload
\* argument, whatever the data is: a null data is passed on as null.
C11_InternalEventEmitsDataDirectly ==
    IsInternalEvent =>
        effects = <<Emit(Get(InternalRecord, <<"event">>), <<Get(InternalRecord, <<"data">>)>>)>>

\* The `ready` event with null data was dispatched: null was the payload.
C11_Witness ==
    /\ lastMsg = InternalEvent(<<"ready">>, JNull)
    /\ effects = <<Emit(JString(<<"ready">>), <<JNull>>)>>
    /\ stdoutLoop = "running"

\* The nested record of the `event` envelope just dispatched, decoded.
NestedRecord == JSONparse(ToStringJS(Get(lastMsg, <<"data">>)))
IsOtherNativeEvent ==
    /\ IsEnvelope(lastMsg, <<"event">>)
    /\ NestedRecord.ok
    /\ NestedRecord.v.t = "object"
    /\ ~IsString(Get(NestedRecord.v, <<"event">>), <<"close">>)

\* C12: dispatching an `event` envelope whose nested name is not `close`
\* emits that name with the nested data whenever the record has a data
\* field, whatever its value, and with no payload only when it has none;
\* the process is not killed.
C12_EventDataWhenPresent ==
    IsOtherNativeEvent =>
        /\ effects = <<Emit(Get(NestedRecord.v, <<"event">>),
                            IF HasKey(NestedRecord.v, <<"data">>)
                            THEN <<Get(NestedRecord.v, <<"data">>)>>
                            ELSE <<>>)>>
        /\ process = "running"

\* C13: dispatching an envelope whose type is none of event, internalEvent
\* and bindCallback logs or throws, emits nothing and calls nothing.
C13_UnknownTypeIsReported ==
    (/\ lastOp.op = "stdoutChunk"
     /\ lastMsg.t = "object"
     /\ ~IsEnvelope(lastMsg, <<"event">>)
     /\ ~IsEnvelope(lastMsg, <<"internalEvent">>)
     /\ ~IsEnvelope(lastMsg, <<"bindCallback">>))
    => /\ Logs(effects) \/ Threw(effects)
       /\ ~Emits(effects)
       /\ ~Calls(effects)

\* C18: handling a stderr chunk, whatever its text, emits nothing, calls
\* nothing, kills nothing, writes nothing and leaves the registry and the
\* stdout loop as they were; it does nothing but log, and logs only when
\* DEBUG is on.
C18_StderrOnlyLogs ==
    [][lastOp'.op = "stderrChunk" =>
          /\ \A i \in 1..Len(effects') : effects'[i].op = "log"
          /\ Logs(effects') => DEBUG
          /\ UNCHANGED <<process, callbacks, bindIndex, stdin, stdout, stdoutPos,
                         stdoutLoop, dispatched, bindsWritten>>]_vars

\* A well-formed close envelope arrived on stderr while a callback was
\* bound: it was logged and the child is still running.
C18_Witness ==
    /\ lastOp.op = "stderrChunk"
    /\ lastOp.str = Line(NativeEvent(<<"close">>, JUndefined))
    /\ effects = <<Log(<<"(debug) ">> \o lastOp.str)>>
    /\ process = "running"
    /\ DOMAIN callbacks = {0}

(***************************************************************************)
(* The read loop and the Window's lifetime (Spec).                         *)
(***************************************************************************)
\* The atoms of the first k lines the child wrote.
LinesLen(k) == Len(Concat(SubSeq(stdout, 1, k)))

\* The read loop stands at the start of line k, which is malformed.
AtMalformedLine(k) == stdout[k] \in MalformedLines /\ stdoutPos = LinesLen(k - 1)

\* C14: a malformed line fails alone: the step of the read loop that takes
\* text of it leaves the loop running and discards nothing of the lines
\* after it.
C14_MalformedLineFailsAlone ==
    [][\A k \in 1..Len(stdout) :
          (AtMalformedLine(k) /\ stdoutLoop = "running" /\ stdoutPos' # stdoutPos) =>
              /\ stdoutLoop' = "running"
              /\ stdoutPos' <= LinesLen(k)]_vars

\* C17: once destroy() has killed the child and returned, no step of the
\* stdout read loop emits an event or calls a callback, whatever the child
\* had written before the kill.
C17_NoDispatchAfterDestroy ==
    [][(destroyed /\ lastOp'.op = "stdoutChunk") =>
          (~Emits(effects') /\ ~Calls(effects'))]_vars

\* In Spec the steps that emit `close` are destroy() and the dispatch of the
\* native close event, and both kill first: the child has been killed
\* exactly when `close` has been emitted.
CloseEmitted == process = "killed"
EmitsClose(effs) == \E i \in 1..Len(effs) : effs[i] = EmitClose

\* C19: `close` is emitted at most once: no step emits it once it has been
\* emitted, be the step a destroy() or the dispatch of a close event.
C19_CloseAtMostOnce ==
    [][CloseEmitted => ~EmitsClose(effects')]_vars

\* The ids of the bind commands the child's stdin has accepted.
BindLines == {i \in 1..Len(stdin) : IsEnvelope(JSONparse(stdin[i]).v, <<"bind">>)}
WrittenIds == {NumeralValue(Get(JSONparse(stdin[i]).v, <<"data">>).s[1]) : i \in BindLines}

\* C20: every id in a bind command written to stdin has a registry entry,
\* and the dispatch of a bindCallback carrying such an id calls that entry
\* and does not throw.
C20_WrittenIdsAreRegistered ==
    /\ WrittenIds \subseteq DOMAIN callbacks
    /\ \A id \in WrittenIds :
          (IsBindCallback(lastMsg) /\ Get(lastMsg, <<"id">>) = JNumber(id)) =>
              effects = <<Call(callbacks[id], Get(lastMsg, <<"data">>).kids)>>

\* The child answered the one bind command it had received.
C20_Witness ==
    /\ WrittenIds = {0}
    /\ Len(stdin) = 1
    /\ lastMsg = BindCallback(0, <<JNumber(2), JNumber(3)>>)
    /\ Calls(effects)
    /\ stdoutLoop = "running"

(***************************************************************************)
(* Construction and the spawn (SpecConstruct).                             *)
(***************************************************************************)
Spawns(effs) == \E i \in 1..Len(effs) : effs[i] = Spawn

\* C15: the only step that spawns is the constructor, and every write made
\* after it, here setTitle's, finds a process handle that is not null.
C15_SpawnedOnceBeforeAnyWrite ==
    [][/\ Spawns(effects') => lastOp'.op = "constructor"
       /\ lastOp'.op = "setTitle" => process # "null"]_vars

\* C16: the constructor either leaves the Window with the handle of its
\* child or throws: it never returns a Window whose handle is null.
C16_SpawnFailureFailsConstruction ==
    lastOp.op = "constructor" => (process # "null" \/ Threw(effects))

=============================================================================
